---- MODULE Spec2Model ----
(***************************************************************************)
(* Session broker of SAAS_project/auth_service: SessionStore (main.py)     *)
(* over InstanceManager (instance_manager.py).                             *)
(*                                                                         *)
(* Request threads run create_session, validate and delete concurrently.   *)
(* A thread's position (pc) changes where the code acquires or releases    *)
(* one of the two locks; a section that runs under the InstanceManager     *)
(* lock is one step, because nothing else reads or writes _instances       *)
(* without that lock.  The part of stop_session after its `with` block     *)
(* (terminate the handles, vncserver -kill) is a step of its own.          *)
(*                                                                         *)
(* The clock is read where a call begins (now_ts = int(time.time())), so   *)
(* its advance is part of that step.  The backend is the set of displays   *)
(* with a VNC server; worker processes live with the handle that refers    *)
(* to them (an instance of the registry, or one popped by stop_session).   *)
(* A step that starts a backend resource may fail as the code allows: a    *)
(* non-zero exit of vncserver, an exception of Popen.                      *)
(***************************************************************************)
EXTENDS Integers, Sequences, FiniteSets, TLC

\* ---- bounds of the model ------------------------------------------------
MaxKeys == 3            \* session ids that uuid4 hands out in one behaviour
MaxTime == 3            \* last value of the wall clock
MAX_INSTANCES == 2      \* SESSION_MAX_INSTANCES (scaled down from 5)
IDLE_TIMEOUT == 1       \* SESSION_IDLE_TIMEOUT (scaled down from 900)
ABSOLUTE_TIMEOUT == 2   \* SESSION_ABSOLUTE_TIMEOUT (scaled down from 28800)

\* ---- program constants --------------------------------------------------
DEFAULT_BASE_DISPLAY == 11
DEFAULT_BASE_WEBSOCKET_PORT == 7700
EmptyId == 0            \* the empty session id "" (falsy in `if not session_id`)
NoThread == 0           \* SessionStore._lock is not held

\* request threads; idle threads are interchangeable, so a new call is taken
\* by the lowest idle one
Threads == {1, 2}
\* the accounts of users.json; they are interchangeable, so the first login
\* is alice's
USERS == {"alice", "bob", "carol"}
Keys == 1 .. MaxKeys
Offsets == 0 .. (MAX_INSTANCES - 1)
Displays == {DEFAULT_BASE_DISPLAY + o : o \in Offsets}

VARIABLES
    sessions,     \* the sessions table: session_id -> row
    instances,    \* InstanceManager._instances: session_id -> Instance
    vncUp,        \* displays on which a VNC server is running
    storeLock,    \* holder of SessionStore._lock, or NoThread
    now,          \* time.time() when the latest create_session or validate began
    nextKey,      \* the next uuid4
    th,           \* per thread: position and locals of the call it runs
    event         \* what the last step returned and did to the backend

vars == <<sessions, instances, vncUp, storeLock, now, nextKey, th, event>>

\* ---- helpers on dicts / tables ------------------------------------------
Put(f, k, v) == [x \in (DOMAIN f) \cup {k} |-> IF x = k THEN v ELSE f[x]]
Drop(f, ks) == [x \in (DOMAIN f) \ ks |-> f[x]]
EmptyMap == << >>
Only(f, ks) == [x \in (DOMAIN f) \cap ks |-> f[x]]

SetMin(S) == CHOOSE x \in S : \A y \in S : x <= y

RECURSIVE SortedSeq(_)
SortedSeq(S) == IF S = {} THEN << >> ELSE <<SetMin(S)>> \o SortedSeq(S \ {SetMin(S)})

\* values of a thread's locals that are not set
NoInst == [display |-> -1, processes |-> << >>]
NoRow == [username |-> "", display |-> -1, websocket_port |-> -1]

\* class Instance; `via` is a history field: the call that stored it
Instance(username, display, ws_port, processes, via) ==
    [username |-> username, display |-> display, websocket_port |-> ws_port,
     processes |-> processes, via |-> via]

IdleThread == [pc |-> "idle", op |-> "", sid |-> EmptyId, user |-> "", now_ts |-> -1,
               todo |-> << >>, popped |-> NoInst, row |-> NoRow]

\* call: the InstanceManager method the step ran, on session `sid` at `display`;
\* started / stopped: the backend resources it started and stopped; kill: the
\* displays it ran vncserver -kill on; ret: the SessionStore method that
\* returned in the step, for session `rsid`, with result `res`; deleted: the
\* rows a DELETE of the step removed
NoEvent == [call |-> "", sid |-> EmptyId, display |-> -1,
            started |-> {}, stopped |-> {}, kill |-> {},
            ret |-> "", rsid |-> EmptyId, res |-> "", deleted |-> << >>]

Range(s) == {s[i] : i \in 1 .. Len(s)}

\* ---- InstanceManager ----------------------------------------------------
UsedDisplays(insts) == {insts[s].display : s \in DOMAIN insts}

FreeOffsets(insts) == {o \in Offsets : (DEFAULT_BASE_DISPLAY + o) \notin UsedDisplays(insts)}

\* a slot allocator that does not look at the displays in use
AllocateSlotFirst(insts) ==
    [ok |-> TRUE, display |-> DEFAULT_BASE_DISPLAY, ws_port |-> DEFAULT_BASE_WEBSOCKET_PORT]

\* a slot allocator that hands out the first slot again when none is free
AllocateSlotReuse(insts) ==
    LET free == IF FreeOffsets(insts) = {} THEN Offsets ELSE FreeOffsets(insts)
    IN [ok |-> TRUE, display |-> DEFAULT_BASE_DISPLAY + SetMin(free),
        ws_port |-> DEFAULT_BASE_WEBSOCKET_PORT + SetMin(free)]

\* a slot allocator that takes the last free offset
AllocateSlotLast(insts) ==
    IF FreeOffsets(insts) = {}
    THEN [ok |-> FALSE, display |-> -1, ws_port |-> -1]
    ELSE LET offset == CHOOSE o \in FreeOffsets(insts) : \A q \in FreeOffsets(insts) : q <= o
         IN [ok |-> TRUE, display |-> DEFAULT_BASE_DISPLAY + offset,
             ws_port |-> DEFAULT_BASE_WEBSOCKET_PORT + offset]

\* _allocate_slot: the first offset whose display no instance uses, or "none"
\* (raise InstanceError("No free session slots available"))
AllocateSlot(insts) ==
    IF FreeOffsets(insts) = {}
    THEN [ok |-> FALSE, display |-> -1, ws_port |-> -1]
    ELSE LET offset == SetMin(FreeOffsets(insts))
         IN [ok |-> TRUE, display |-> DEFAULT_BASE_DISPLAY + offset,
             ws_port |-> DEFAULT_BASE_WEBSOCKET_PORT + offset]

\* a cleanup that kills the VNC server and forgets the handles
RollbackVncOnly(processes, display, vnc) ==
    [vncUp |-> vnc \ {display}, stopped |-> {"vnc"}, kill |-> {display}]

\* the except-branch shared by start_session and ensure_session: terminate
\* the handles collected so far, then vncserver -kill :display
Rollback(processes, display, vnc) ==
    [vncUp |-> vnc \ {display},
     stopped |-> Range(processes) \cup {"vnc"},
     kill |-> {display}]

\* the try-body shared by start_session and ensure_session.  fail = 0: every
\* step succeeds; fail = n: the n-th of _start_vnc, _start_dosbox,
\* _start_websockify raises.  _start_vnc kills a prior server first.
TryStart(display, fail, vnc) ==
    LET processes == IF fail = 0 THEN <<"dosbox", "websockify">>
                     ELSE IF fail = 3 THEN <<"dosbox">>
                     ELSE << >>
        started == Range(processes) \cup (IF fail = 1 THEN {} ELSE {"vnc"})
        vnc1 == IF fail = 1 THEN vnc \ {display} ELSE (vnc \ {display}) \cup {display}
    IN IF fail = 0
       THEN [ok |-> TRUE, processes |-> processes, vncUp |-> vnc1,
             started |-> started, stopped |-> {}, kill |-> {display}]
       ELSE LET rb == Rollback(processes, display, vnc1)
            IN [ok |-> FALSE, processes |-> << >>, vncUp |-> rb.vncUp,
                started |-> started,
                stopped |-> rb.stopped, kill |-> {display} \cup rb.kill]

TypeOK ==
    /\ DOMAIN sessions \subseteq Keys
    /\ DOMAIN instances \subseteq Keys
    /\ vncUp \subseteq Displays
    /\ storeLock \in Threads \cup {NoThread}
    /\ now \in 0 .. MaxTime
    /\ nextKey \in 1 .. (MaxKeys + 1)

Init ==
    /\ sessions = EmptyMap
    /\ instances = EmptyMap
    /\ vncUp = {}
    /\ storeLock = NoThread
    /\ now = 0
    /\ nextKey = 1
    /\ th = [t \in Threads |-> IdleThread]
    /\ event = NoEvent

\* a call starts on the lowest idle thread
Takes(t) ==
    /\ th[t].pc = "idle"
    /\ \A o \in Threads : o < t => th[o].pc # "idle"

\* session ids a client can present: ids of calls to create_session that have
\* returned, the empty id, and an id that was never issued
UnknownId == MaxKeys + 1
Presentable ==
    {k \in Keys : k < nextKey /\ \A t \in Threads : ~(th[t].op = "create" /\ th[t].sid = k)}
        \cup {EmptyId, UnknownId}

\* the thread's record after one pass of stop_session: delete returns after
\* its only stop_session, the other callers go on under the store lock
AfterStop(r) ==
    IF r.op = "delete" THEN IdleThread
    ELSE [r EXCEPT !.todo = Tail(r.todo), !.popped = NoInst, !.pc = "stop"]

StopRet(r) == IF r.op = "delete" THEN "delete" ELSE ""

\* a stop_session that looks the instance up and leaves it in the registry
StopPopKeep(t) ==
    LET r == th[t]
        sid == Head(r.todo)
    IN /\ r.pc = "stop"
       /\ r.todo # << >>
       /\ th' = [th EXCEPT ![t] = AfterStop(r)]
       /\ event' = [NoEvent EXCEPT !.call = "stop_session", !.sid = sid,
                                   !.ret = StopRet(r),
                                   !.rsid = IF r.op = "delete" THEN sid ELSE EmptyId,
                                   !.res = IF r.op = "delete" THEN "ok" ELSE ""]
       /\ UNCHANGED <<sessions, instances, vncUp, storeLock, now, nextKey>>

\* stop_session, the `with self._lock` block: pop the instance; return at once
\* when there is none
StopPop(t) ==
    LET r == th[t]
        sid == Head(r.todo)
    IN /\ r.pc = "stop"
       /\ r.todo # << >>
       /\ IF sid \in DOMAIN instances
          THEN /\ instances' = Drop(instances, {sid})
               /\ th' = [th EXCEPT ![t] = [r EXCEPT !.pc = "kill",
                                !.popped = [display |-> instances[sid].display,
                                            processes |-> instances[sid].processes]]]
               /\ event' = [NoEvent EXCEPT !.call = "stop_session", !.sid = sid,
                                           !.display = instances[sid].display]
          ELSE /\ instances' = instances
               /\ th' = [th EXCEPT ![t] = AfterStop(r)]
               /\ event' = [NoEvent EXCEPT !.call = "stop_session", !.sid = sid,
                                           !.ret = StopRet(r),
                                           !.rsid = IF r.op = "delete" THEN sid ELSE EmptyId,
                                           !.res = IF r.op = "delete" THEN "ok" ELSE ""]
       /\ UNCHANGED <<sessions, vncUp, storeLock, now, nextKey>>

\* stop_session after the lock is released: terminate the handles of the
\* popped instance, then vncserver -kill :display
StopKill(t) ==
    LET r == th[t]
        sid == Head(r.todo)
    IN /\ r.pc = "kill"
       /\ vncUp' = vncUp \ {r.popped.display}
       /\ th' = [th EXCEPT ![t] = AfterStop(r)]
       /\ event' = [NoEvent EXCEPT !.call = "stop_session", !.sid = sid,
                                   !.display = r.popped.display,
                                   !.stopped = Range(r.popped.processes) \cup {"vnc"},
                                   !.kill = {r.popped.display},
                                   !.ret = StopRet(r),
                                   !.rsid = IF r.op = "delete" THEN sid ELSE EmptyId,
                                   !.res = IF r.op = "delete" THEN "ok" ELSE ""]
       /\ UNCHANGED <<sessions, instances, storeLock, now, nextKey>>

\* create_session before the lock: session_id = uuid4(), now_ts = time.time()
CreateBegin(t, username, clock) ==
    /\ Takes(t)
    /\ nextKey \in Keys
    /\ th' = [th EXCEPT ![t] = [IdleThread EXCEPT !.pc = "c_wait", !.op = "create",
                                                  !.sid = nextKey, !.user = username,
                                                  !.now_ts = clock]]
    /\ nextKey' = nextKey + 1
    /\ now' = clock
    /\ event' = NoEvent
    /\ UNCHANGED <<sessions, instances, vncUp, storeLock>>

\* a login that looks up no earlier rows
OldSessionsNone(username) == {}

OldSessions(username) == {s \in DOMAIN sessions : sessions[s].username = username}

\* create_session: take the store lock, select and delete the owner's rows
CreateLock(t) ==
    LET r == th[t]
    IN /\ r.pc = "c_wait"
       /\ storeLock = NoThread
       /\ storeLock' = t
       /\ sessions' = Drop(sessions, OldSessions(r.user))
       /\ th' = [th EXCEPT ![t] = [r EXCEPT !.pc = "stop",
                                            !.todo = SortedSeq(OldSessions(r.user))]]
       /\ event' = [NoEvent EXCEPT !.deleted = Only(sessions, OldSessions(r.user))]
       /\ UNCHANGED <<instances, vncUp, now, nextKey>>

\* start_session(session_id, username) as a function of the registry and the
\* backend; fail as in TryStart
StartSession(sid, username, fail, insts, vnc) ==
    IF sid \in DOMAIN insts
    THEN [res |-> "ok", display |-> insts[sid].display,
          ws_port |-> insts[sid].websocket_port, instances |-> insts,
          vncUp |-> vnc, started |-> {}, stopped |-> {}, kill |-> {}]
    ELSE LET slot == AllocateSlot(insts)
             a == TryStart(slot.display, fail, vnc)
         IN IF ~slot.ok
            THEN [res |-> "NoFreeSlots", display |-> -1, ws_port |-> -1,
                  instances |-> insts, vncUp |-> vnc,
                  started |-> {}, stopped |-> {}, kill |-> {}]
            ELSE [res |-> IF a.ok THEN "ok" ELSE "ProvisionFailed",
                  display |-> slot.display, ws_port |-> slot.ws_port,
                  instances |-> IF a.ok
                                THEN Put(insts, sid, Instance(username, slot.display,
                                                     slot.ws_port, a.processes, "start"))
                                ELSE insts,
                  vncUp |-> a.vncUp,
                  started |-> a.started, stopped |-> a.stopped, kill |-> a.kill]

\* a create_session that inserts its row whatever start_session did
InsertAlways(tbl, sid, row, res) == Put(tbl, sid, row)

\* the INSERT of create_session is reached when start_session returned
Insert(tbl, sid, row, res) == IF res = "ok" THEN Put(tbl, sid, row) ELSE tbl

\* a row inserted without its slot (both columns NULL)
NewRowNoSlot(username, display, ws_port, now_ts) ==
    [username |-> username, display |-> -1, websocket_port |-> -1,
     created_at |-> now_ts, last_seen |-> now_ts]

\* the row create_session inserts
NewRow(username, display, ws_port, now_ts) ==
    [username |-> username, display |-> display, websocket_port |-> ws_port,
     created_at |-> now_ts, last_seen |-> now_ts]

\* create_session after the old instances are stopped: start_session, then
\* INSERT and return; an InstanceError leaves the `with` blocks without INSERT
CreateStart(t) ==
    LET r == th[t]
    IN /\ r.pc = "stop"
       /\ r.op = "create"
       /\ r.todo = << >>
       /\ \E fail \in 0 .. 3 :
            LET s == StartSession(r.sid, r.user, fail, instances, vncUp)
            IN /\ instances' = s.instances
               /\ vncUp' = s.vncUp
               /\ sessions' = Insert(sessions, r.sid,
                                      NewRow(r.user, s.display, s.ws_port, r.now_ts), s.res)
               /\ event' = [call |-> "start_session", sid |-> r.sid, display |-> s.display,
                            started |-> s.started, stopped |-> s.stopped, kill |-> s.kill,
                            ret |-> "create_session", rsid |-> r.sid, res |-> s.res,
                            deleted |-> << >>]
       /\ storeLock' = NoThread
       /\ th' = [th EXCEPT ![t] = IdleThread]
       /\ UNCHANGED <<now, nextKey>>

\* validate before the lock: None for an empty id, else now_ts = time.time()
ValidateBegin(t, k, clock) ==
    /\ Takes(t)
    /\ k \in Presentable
    /\ IF k = EmptyId
       THEN /\ th' = th
            /\ event' = [NoEvent EXCEPT !.ret = "validate", !.rsid = k, !.res = "None"]
       ELSE /\ th' = [th EXCEPT ![t] = [IdleThread EXCEPT !.pc = "v_wait", !.op = "validate",
                                                         !.sid = k, !.now_ts = clock]]
            /\ event' = NoEvent
    /\ now' = clock
    /\ UNCHANGED <<sessions, instances, vncUp, storeLock, nextKey>>

\* WHERE clauses that test one of the two timeouts only
ExpiredAbsoluteOnly(row, now_ts) == (now_ts - row.created_at) > ABSOLUTE_TIMEOUT
ExpiredIdleOnly(row, now_ts) == (now_ts - row.last_seen) > IDLE_TIMEOUT

\* a WHERE clause whose idle test is not strict
ExpiredIdleInclusive(row, now_ts) ==
    \/ (now_ts - row.last_seen) >= IDLE_TIMEOUT
    \/ (now_ts - row.created_at) > ABSOLUTE_TIMEOUT

\* the WHERE clause of _cleanup_expired
Expired(row, now_ts) ==
    \/ (now_ts - row.last_seen) > IDLE_TIMEOUT
    \/ (now_ts - row.created_at) > ABSOLUTE_TIMEOUT

StaleIds(now_ts) == {s \in DOMAIN sessions : Expired(sessions[s], now_ts)}

\* validate: take the store lock; _cleanup_expired selects and deletes the
\* stale rows, their instances are stopped next
ValidateLock(t) ==
    LET r == th[t]
    IN /\ r.pc = "v_wait"
       /\ storeLock = NoThread
       /\ storeLock' = t
       /\ sessions' = Drop(sessions, StaleIds(r.now_ts))
       /\ th' = [th EXCEPT ![t] = [r EXCEPT !.pc = "stop",
                                            !.todo = SortedSeq(StaleIds(r.now_ts))]]
       /\ event' = [NoEvent EXCEPT !.call = "_cleanup_expired",
                                   !.deleted = Only(sessions, StaleIds(r.now_ts))]
       /\ UNCHANGED <<instances, vncUp, now, nextKey>>

\* validate after the sweep: fetch the row, UPDATE last_seen, release the lock
ValidateFetch(t) ==
    LET r == th[t]
    IN /\ r.pc = "stop"
       /\ r.op = "validate"
       /\ r.todo = << >>
       /\ storeLock' = NoThread
       /\ IF r.sid \notin DOMAIN sessions
          THEN /\ sessions' = sessions
               /\ th' = [th EXCEPT ![t] = IdleThread]
               /\ event' = [NoEvent EXCEPT !.ret = "validate", !.rsid = r.sid, !.res = "None"]
          ELSE /\ sessions' = [sessions EXCEPT ![r.sid].last_seen = r.now_ts]
               /\ IF sessions[r.sid].display = -1 \/ sessions[r.sid].websocket_port = -1
                  THEN /\ th' = [th EXCEPT ![t] = IdleThread]
                       /\ event' = [NoEvent EXCEPT !.ret = "validate", !.rsid = r.sid,
                                                   !.res = "None"]
                  ELSE /\ th' = [th EXCEPT ![t] =
                                [r EXCEPT !.pc = "v_ensure", !.now_ts = -1,
                                    !.row = [username |-> sessions[r.sid].username,
                                             display |-> sessions[r.sid].display,
                                             websocket_port |-> sessions[r.sid].websocket_port]]]
                       /\ event' = NoEvent
       /\ UNCHANGED <<instances, vncUp, now, nextKey>>

\* an ensure_session that takes a slot from the allocator
EnsureSessionRealloc(sid, username, display, ws_port, fail, insts, vnc) ==
    LET s == StartSession(sid, username, fail, insts, vnc)
    IN [res |-> s.res, instances |-> s.instances, vncUp |-> s.vncUp,
        started |-> s.started, stopped |-> s.stopped, kill |-> s.kill]

\* an ensure_session whose except-branch stops nothing
EnsureSessionNoCleanup(sid, username, display, ws_port, fail, insts, vnc) ==
    LET a == TryStart(display, fail, vnc)
    IN IF sid \in DOMAIN insts
       THEN [res |-> "ok", instances |-> insts, vncUp |-> vnc,
             started |-> {}, stopped |-> {}, kill |-> {}]
       ELSE [res |-> IF a.ok THEN "ok" ELSE "ResumeFailed",
             instances |-> IF a.ok
                           THEN Put(insts, sid, Instance(username, display, ws_port,
                                                         a.processes, "ensure"))
                           ELSE insts,
             vncUp |-> IF fail = 1 THEN a.vncUp ELSE a.vncUp \cup {display},
             started |-> a.started, stopped |-> {}, kill |-> {display}]

\* ensure_session(session_id, username, display, websocket_port) as a function
\* of the registry and the backend; fail as in TryStart
EnsureSession(sid, username, display, ws_port, fail, insts, vnc) ==
    IF sid \in DOMAIN insts
    THEN [res |-> "ok", instances |-> insts, vncUp |-> vnc,
          started |-> {}, stopped |-> {}, kill |-> {}]
    ELSE LET a == TryStart(display, fail, vnc)
         IN [res |-> IF a.ok THEN "ok" ELSE "ResumeFailed",
             instances |-> IF a.ok
                           THEN Put(insts, sid, Instance(username, display, ws_port,
                                                         a.processes, "ensure"))
                           ELSE insts,
             vncUp |-> a.vncUp,
             started |-> a.started, stopped |-> a.stopped, kill |-> a.kill]

\* validate after the store lock is released: ensure_session, then return
ValidateEnsure(t) ==
    LET r == th[t]
    IN /\ r.pc = "v_ensure"
       /\ \E fail \in 0 .. 3 :
            LET e == EnsureSession(r.sid, r.row.username, r.row.display,
                                   r.row.websocket_port, fail, instances, vncUp)
            IN /\ instances' = e.instances
               /\ vncUp' = e.vncUp
               /\ event' = [call |-> "ensure_session", sid |-> r.sid,
                            display |-> r.row.display,
                            started |-> e.started, stopped |-> e.stopped, kill |-> e.kill,
                            ret |-> "validate", rsid |-> r.sid, res |-> e.res,
                            deleted |-> << >>]
       /\ th' = [th EXCEPT ![t] = IdleThread]
       /\ UNCHANGED <<sessions, storeLock, now, nextKey>>

\* delete: None for an empty id; else DELETE the row under the store lock and
\* go on to stop_session without it
Delete(t, k) ==
    /\ Takes(t)
    /\ k \in Presentable
    /\ IF k = EmptyId
       THEN /\ th' = th
            /\ sessions' = sessions
            /\ event' = [NoEvent EXCEPT !.ret = "delete", !.rsid = k, !.res = "ok"]
       ELSE /\ storeLock = NoThread
            /\ sessions' = Drop(sessions, {k})
            /\ th' = [th EXCEPT ![t] = [IdleThread EXCEPT !.pc = "stop", !.op = "delete",
                                                         !.sid = k, !.todo = <<k>>]]
            /\ event' = [NoEvent EXCEPT !.deleted = Only(sessions, {k})]
    /\ UNCHANGED <<instances, vncUp, storeLock, now, nextKey>>

\* the broker process is restarted: the registry and the request threads are
\* gone, the table is on disk; the VNC servers are daemons and stay up
Restart ==
    /\ instances # EmptyMap \/ \E t \in Threads : th[t].pc # "idle"
    /\ instances' = EmptyMap
    /\ th' = [t \in Threads |-> IdleThread]
    /\ storeLock' = NoThread
    /\ event' = NoEvent
    /\ UNCHANGED <<sessions, vncUp, now, nextKey>>

\* ---- the callers --------------------------------------------------------
\* the accounts are interchangeable, so the first login is alice's
Logins(users) == IF nextKey = 1 THEN {"alice"} ELSE users

Ids == Keys \cup {EmptyId, UnknownId}

\* Spec: two request threads, two accounts
RaceKeys == MaxKeys - 1
RaceTime == MaxTime - 1
RaceUsers == {"alice", "bob"}

\* the calls of the request threads, overlapping
Requests ==
    \E t \in Threads :
        \/ \E u \in Logins(RaceUsers), clock \in now .. RaceTime :
               nextKey <= RaceKeys /\ CreateBegin(t, u, clock)
        \/ CreateLock(t)
        \/ CreateStart(t)
        \/ \E k \in Ids, clock \in now .. RaceTime : ValidateBegin(t, k, clock)
        \/ ValidateLock(t)
        \/ ValidateFetch(t)
        \/ ValidateEnsure(t)
        \/ \E k \in Ids : Delete(t, k)
        \/ StopPop(t)
        \/ StopKill(t)

Next ==
    \/ Restart
    \/ Requests

Spec == Init /\ [][Next]_vars

\* SpecUp: the same threads and accounts while the broker process stays up
SpecUp == Init /\ [][Requests]_vars

\* the calls of one request thread, one call at a time
Calls(users, last) ==
    \/ \E u \in Logins(users), clock \in now .. last : CreateBegin(1, u, clock)
    \/ CreateLock(1)
    \/ CreateStart(1)
    \/ \E k \in Ids, clock \in now .. last : ValidateBegin(1, k, clock)
    \/ ValidateLock(1)
    \/ ValidateFetch(1)
    \/ ValidateEnsure(1)
    \/ \E k \in Ids : Delete(1, k)
    \/ StopPop(1)
    \/ StopKill(1)

\* SpecSeq: one call at a time, two accounts, the clock runs to MaxTime
NextSeq ==
    \/ Restart
    \/ Calls(RaceUsers, MaxTime)

SpecSeq == Init /\ [][NextSeq]_vars

\* SpecPool: one call at a time, three accounts (more than slots), the clock
\* stands still
NextPool ==
    \/ Restart
    \/ Calls(USERS, 0)

SpecPool == Init /\ [][NextPool]_vars

\* SpecExpiry: one call at a time, three accounts (more than slots), the clock
\* runs far enough for both timeouts to pass
NextExpiry ==
    \/ Restart
    \/ Calls(USERS, RaceTime)

SpecExpiry == Init /\ [][NextExpiry]_vars

\* ---- properties ---------------------------------------------------------
Quiet == \A t \in Threads : th[t].pc = "idle"

\* C1: no two instances of the registry are bound to the same display, in
\* every reachable state.
C1_SlotExclusivity ==
    \A a, b \in DOMAIN instances : a # b => instances[a].display # instances[b].display

\* C2: instances stored by start_session never share a display while both are
\* in the registry, and every successful start_session binds a display that
\* no instance of the registry held when the call ran.
C2_StartedDistinct ==
    \A a, b \in DOMAIN instances :
        (a # b /\ instances[a].via = "start" /\ instances[b].via = "start")
            => instances[a].display # instances[b].display

C2_AllocatedFree ==
    (event'.call = "start_session" /\ event'.res = "ok")
        => event'.display \notin UsedDisplays(instances)

\* C2 as one formula: the invariant and the step property above
C2_ProvisionExclusive == []C2_StartedDistinct /\ [][C2_AllocatedFree]_vars

\* a start_session succeeded while another provisioned instance is live, with
\* a second call in flight
C2_Witness ==
    /\ event.call = "start_session"
    /\ event.res = "ok"
    /\ \E o \in DOMAIN instances : o # event.sid /\ instances[o].via = "start"
    /\ \E t \in Threads : th[t].pc # "idle"

\* C3: once every call has returned, each instance of the registry has a row
\* in the sessions table under the same session id.
C3_NoOrphans == Quiet => DOMAIN instances \subseteq DOMAIN sessions

\* C4: when a backend step fails in start_session, the call has stopped every
\* resource it started, stores no instance for the session id, leaves the
\* display without VNC server, and leaves the free slots as they were.
C4_Step ==
    (event'.call = "start_session" /\ event'.res = "ProvisionFailed")
        => /\ event'.started \subseteq event'.stopped
           /\ event'.sid \notin DOMAIN instances'
           /\ event'.display \notin vncUp'
           /\ FreeOffsets(instances') = FreeOffsets(instances)
           /\ instances' = instances

\* C4 for every step of every behaviour
C4_RollbackComplete == [][C4_Step]_vars

\* the third step failed after the first two started their resources, with a
\* slot already taken
C4_Witness ==
    /\ event.call = "start_session"
    /\ event.res = "ProvisionFailed"
    /\ event.started = {"vnc", "dosbox"}
    /\ instances # EmptyMap
    /\ FreeOffsets(instances) # {}

\* C5: while no create_session runs, no two rows belong to one owner; a
\* create_session that succeeds leaves the new row as the owner's only row,
\* and when it returns with no other call in flight, no instance that an
\* earlier login of the owner provisioned is left in the registry.
RowsOf(username) == {k \in DOMAIN sessions : sessions[k].username = username}

C5_OneRowPerOwner ==
    (\A t \in Threads : th[t].op # "create")
        => \A a, b \in DOMAIN sessions :
              a # b => sessions[a].username # sessions[b].username

C5_SecondReplacesFirst ==
    (event.ret = "create_session" /\ event.res = "ok")
        => /\ event.rsid \in DOMAIN sessions
           /\ RowsOf(sessions[event.rsid].username) = {event.rsid}
           /\ Quiet =>
                 \A k \in DOMAIN instances :
                    (k # event.rsid
                       /\ instances[k].username = sessions[event.rsid].username)
                        => instances[k].via = "ensure"

\* C5 as one invariant
C5_SingleOwner == C5_OneRowPerOwner /\ C5_SecondReplacesFirst

\* alice, whose login was the first, has logged in again: the new row and
\* the new instance are the only ones
C5_Witness ==
    /\ event.ret = "create_session"
    /\ event.res = "ok"
    /\ event.rsid > 1
    /\ Quiet
    /\ DOMAIN sessions = {event.rsid}
    /\ sessions[event.rsid].username = "alice"
    /\ DOMAIN instances = {event.rsid}

\* C5 for calls in sequence: the earlier instance is gone, however stored.
C5_InSequence ==
    (event.ret = "create_session" /\ event.res = "ok")
        => \A k \in DOMAIN instances :
              k # event.rsid => instances[k].username # sessions[event.rsid].username

\* C6: when a validate call for a non-empty session id returns, no row is
\* left whose last_seen lies more than IDLE_TIMEOUT before the call's clock,
\* whichever id was asked for, and no instance is left without a row; the
\* sweep itself leaves no such row.
IdleStale(ts) == {k \in DOMAIN sessions : (ts - sessions[k].last_seen) > IDLE_TIMEOUT}

C6_IdleExpiry ==
    /\ event.call = "_cleanup_expired" => IdleStale(now) = {}
    /\ (event.ret = "validate" /\ event.rsid # EmptyId)
          => /\ IdleStale(now) = {}
             /\ DOMAIN instances \subseteq DOMAIN sessions

\* C6 as stated for every id, the empty one included
C6_AnyKey ==
    event.ret = "validate"
        => /\ IdleStale(now) = {}
           /\ DOMAIN instances \subseteq DOMAIN sessions

\* the sweep of a validate for another id has removed a row that only the
\* idle timeout expires, and goes on to stop its instance
C6_Witness ==
    /\ event.call = "_cleanup_expired"
    /\ th[1].op = "validate"
    /\ \E k \in DOMAIN event.deleted :
          /\ k # th[1].sid
          /\ (now - event.deleted[k].last_seen) > IDLE_TIMEOUT
          /\ (now - event.deleted[k].created_at) <= ABSOLUTE_TIMEOUT
          /\ k \in DOMAIN instances
          /\ k \in Range(th[1].todo)

\* C7: the sweep leaves no row created more than ABSOLUTE_TIMEOUT before the
\* call's clock, a validate that succeeds is within ABSOLUTE_TIMEOUT of the
\* row's created_at, and no step changes the created_at of a row.
AbsoluteStale(ts) ==
    {k \in DOMAIN sessions : (ts - sessions[k].created_at) > ABSOLUTE_TIMEOUT}

C7_State ==
    /\ event.call = "_cleanup_expired" => AbsoluteStale(now) = {}
    /\ (event.ret = "validate" /\ event.rsid # EmptyId) => AbsoluteStale(now) = {}
    /\ (event.ret = "validate" /\ event.res = "ok")
          => /\ event.rsid \in DOMAIN sessions
             /\ (now - sessions[event.rsid].created_at) <= ABSOLUTE_TIMEOUT

C7_CreatedFixed ==
    \A k \in DOMAIN sessions \cap DOMAIN sessions' :
        sessions'[k].created_at = sessions[k].created_at

\* C7 as one formula: the invariant and the step property above
C7_AbsoluteExpiry == []C7_State /\ [][C7_CreatedFixed]_vars

\* the sweep of validate(k) has removed the row of k, which was seen within
\* the idle timeout and created before the absolute one
C7_Witness ==
    /\ event.call = "_cleanup_expired"
    /\ th[1].op = "validate"
    /\ th[1].sid \in DOMAIN event.deleted
    /\ (now - event.deleted[th[1].sid].last_seen) <= IDLE_TIMEOUT
    /\ (now - event.deleted[th[1].sid].created_at) > ABSOLUTE_TIMEOUT
    /\ event.deleted[th[1].sid].last_seen > event.deleted[th[1].sid].created_at

\* C8: an ensure_session that finds no instance for the id stores one at the
\* display and port of the row; one that finds the instance starts nothing
\* and leaves the registry alone; no step changes the slot of a row.
C8_Ensure ==
    (event'.call = "ensure_session" /\ event'.res = "ok")
        => IF event'.sid \in DOMAIN instances
           THEN /\ event'.started = {}
                /\ instances' = instances
                /\ vncUp' = vncUp
           ELSE /\ event'.sid \in DOMAIN instances'
                /\ event'.sid \in DOMAIN sessions
                /\ instances'[event'.sid].display = sessions[event'.sid].display
                /\ instances'[event'.sid].websocket_port
                      = sessions[event'.sid].websocket_port
                /\ event'.started = {"vnc", "dosbox", "websockify"}

C8_SlotFixed ==
    \A k \in DOMAIN sessions \cap DOMAIN sessions' :
        /\ sessions'[k].display = sessions[k].display
        /\ sessions'[k].websocket_port = sessions[k].websocket_port

\* C8 for every step of every behaviour
C8_ResumeSameSlot == [][C8_Ensure /\ C8_SlotFixed]_vars

\* a session was resumed at the second display while the first one was free
C8_Witness ==
    /\ event.call = "ensure_session"
    /\ event.res = "ok"
    /\ event.started # {}
    /\ event.sid \in DOMAIN sessions
    /\ instances[event.sid].display = DEFAULT_BASE_DISPLAY + 1
    /\ DEFAULT_BASE_DISPLAY \notin UsedDisplays(instances)

\* C9: when the instances of the registry hold every display, start_session
\* for a further id fails for want of a slot, starts and stops nothing, and
\* leaves the registry and the VNC servers as they were.
C9_Step ==
    (event'.call = "start_session" /\ UsedDisplays(instances) = Displays)
        => /\ event'.res = "NoFreeSlots"
           /\ event'.started = {}
           /\ event'.stopped = {}
           /\ event'.kill = {}
           /\ instances' = instances
           /\ vncUp' = vncUp
           /\ event'.sid \notin DOMAIN sessions'

\* C9 for every step of every behaviour
C9_Exhaustion == [][C9_Step]_vars

\* a login was refused while as many sessions as slots are live, each at a
\* display of its own
C9_Witness ==
    /\ event.ret = "create_session"
    /\ event.res = "NoFreeSlots"
    /\ Cardinality(DOMAIN instances) = MAX_INSTANCES
    /\ C1_SlotExclusivity
    /\ DOMAIN instances = DOMAIN sessions

\* C10: a create_session that fails returns the InstanceError of
\* start_session, and neither a row nor an instance exists for its id.
C10_FailedCreate ==
    (event.ret = "create_session" /\ event.res # "ok")
        => /\ event.res \in {"NoFreeSlots", "ProvisionFailed"}
           /\ event.rsid \notin DOMAIN sessions
           /\ event.rsid \notin DOMAIN instances

\* a login failed in a backend step, after the owner's earlier row was deleted
C10_Witness ==
    /\ event.ret = "create_session"
    /\ event.res = "ProvisionFailed"
    /\ event.rsid > 1
    /\ sessions = EmptyMap

\* C11: when a backend step of ensure_session fails inside validate(k), the
\* call returns the InstanceError, has stopped every resource it started,
\* leaves no VNC server at the display and no instance for k, and leaves the
\* table as it was, the row of k at its display; and every validate(k) that
\* finds the row of k and no instance of k runs ensure_session at the display
\* of the row, beginning with _start_vnc there.
C11_Failure ==
    (event'.call = "ensure_session" /\ event'.res = "ResumeFailed")
        => /\ event'.ret = "validate"
           /\ event'.rsid = event'.sid
           /\ event'.started \subseteq event'.stopped
           /\ event'.display \notin vncUp'
           /\ instances' = instances
           /\ event'.sid \notin DOMAIN instances'
           /\ sessions' = sessions
           /\ event'.sid \in DOMAIN sessions'
           /\ sessions'[event'.sid].display = event'.display

C11_Retry ==
    (/\ event'.ret = "validate"
     /\ event'.rsid \in DOMAIN sessions
     /\ event'.rsid \notin DOMAIN instances)
        => /\ event'.call = "ensure_session"
           /\ event'.sid = event'.rsid
           /\ event'.display = sessions[event'.rsid].display
           /\ event'.display \in event'.kill

\* C11 for every step of every behaviour
C11_ResumeFailureKeeps == [][C11_Failure /\ C11_Retry]_vars

\* the resume of a session failed in its third step, after the VNC server
\* and dosbox were started; its row is there, seen at the time of the call
C11_Witness ==
    /\ event.call = "ensure_session"
    /\ event.res = "ResumeFailed"
    /\ event.started = {"vnc", "dosbox"}
    /\ event.sid \in DOMAIN sessions
    /\ sessions[event.sid].last_seen > sessions[event.sid].created_at
    /\ sessions[event.sid].display = DEFAULT_BASE_DISPLAY + 1

\* C12: the sweep of a validate at time t' removes every row with
\* t' - last_seen > IDLE_TIMEOUT and keeps, unchanged, every row with
\* t' - last_seen <= IDLE_TIMEOUT that the absolute timeout does not expire
\* (equality included); a validate(k) that returns when k has no row returns
\* None, one that succeeds at time t leaves last_seen = t.
C12_Sweep ==
    event'.call = "_cleanup_expired"
        => \A k \in DOMAIN sessions :
              /\ (now' - sessions[k].last_seen) > IDLE_TIMEOUT => k \notin DOMAIN sessions'
              /\ (/\ (now' - sessions[k].last_seen) <= IDLE_TIMEOUT
                  /\ (now' - sessions[k].created_at) <= ABSOLUTE_TIMEOUT)
                    => (k \in DOMAIN sessions' /\ sessions'[k] = sessions[k])

C12_Fetch ==
    (event'.ret = "validate" /\ event'.rsid \notin DOMAIN sessions)
        => event'.res = "None"

C12_Touch ==
    (event'.ret = "validate" /\ event'.res = "ok")
        => /\ event'.rsid \in DOMAIN sessions'
           /\ sessions'[event'.rsid].last_seen = now'

C13_LiveDisplays ==
    {instances[k].display : k \in {x \in DOMAIN instances \cap DOMAIN sessions :
                                      ~Expired(sessions[x], now)}}

C13_PromptReclamation ==
    /\ (event.ret \in {"create_session", "validate"} /\ event.rsid # EmptyId)
          => /\ StaleIds(now) = {}
             /\ DOMAIN instances \subseteq DOMAIN sessions
    /\ (event.ret = "create_session" /\ event.res = "NoFreeSlots")
          => C13_LiveDisplays = Displays

\* C13, the refused login alone
C13_NoRefusalByExpired ==
    (event.ret = "create_session" /\ event.res = "NoFreeSlots")
        => C13_LiveDisplays = Displays

\* C14: while the broker process stays up, whenever every call has returned
\* each row has a display and a port, and the registry holds an instance
\* under the row's session id with the row's username, display and port.
C14_SlotWhileValid ==
    Quiet => \A k \in DOMAIN sessions :
                /\ sessions[k].display \in Displays
                /\ sessions[k].websocket_port # -1
                /\ k \in DOMAIN instances
                /\ instances[k].username = sessions[k].username
                /\ instances[k].display = sessions[k].display
                /\ instances[k].websocket_port = sessions[k].websocket_port

\* every call has returned, the second login holds the second slot, and the
\* first session was validated after it
C14_Witness ==
    /\ Quiet
    /\ DOMAIN sessions = {1, 2}
    /\ DOMAIN instances = {1, 2}
    /\ sessions[2].display = DEFAULT_BASE_DISPLAY + 1
    /\ sessions[1].last_seen > sessions[2].created_at
    /\ event.ret = "validate"
    /\ event.res = "ok"

\* C15: a start_session that provisions binds the display base + o and the
\* port base + o of the smallest offset o below MAX_INSTANCES whose display
\* no instance of the registry holds, and the row gets the same pair; a
\* stop_session that finds the instance removes it from the registry, so
\* that its display is held only by whatever other instances are bound to it.
C15_Lowest ==
    (event'.call = "start_session" /\ event'.res = "ok"
        /\ event'.sid \notin DOMAIN instances)
        => LET o == event'.display - DEFAULT_BASE_DISPLAY
           IN /\ o \in Offsets
              /\ event'.display \notin UsedDisplays(instances)
              /\ \A q \in 0 .. (o - 1) :
                    (DEFAULT_BASE_DISPLAY + q) \in UsedDisplays(instances)
              /\ instances'[event'.sid].display = event'.display
              /\ instances'[event'.sid].websocket_port = DEFAULT_BASE_WEBSOCKET_PORT + o
              /\ sessions'[event'.sid].display = event'.display
              /\ sessions'[event'.sid].websocket_port = DEFAULT_BASE_WEBSOCKET_PORT + o

C15_Freed ==
    (event'.call = "stop_session" /\ event'.sid \in DOMAIN instances)
        => /\ event'.sid \notin DOMAIN instances'
           /\ \A d \in Displays :
                 d \in UsedDisplays(instances')
                    <=> \E k \in DOMAIN instances \ {event'.sid} : instances[k].display = d

\* C15 for every step of every behaviour
C15_LowestFreeIndex == [][C15_Lowest /\ C15_Freed]_vars

\* the third login got the first display back after the first session was
\* logged out, while the second session holds the second display
C15_Witness ==
    /\ event.call = "start_session"
    /\ event.res = "ok"
    /\ event.sid = 3
    /\ event.display = DEFAULT_BASE_DISPLAY
    /\ DOMAIN instances = {2, 3}
    /\ instances[2].display = DEFAULT_BASE_DISPLAY + 1
    /\ instances[2].via = "start"
    /\ sessions[3].username = "carol"

\* C16: while a stop_session has popped an instance and has not yet stopped
\* its handles and its VNC server, no start_session or ensure_session
\* starts resources at the display of that instance.
C16_AtomicTransitions ==
    \A t \in Threads :
        th[t].pc = "kill"
            => ~(/\ event.call \in {"start_session", "ensure_session"}
                 /\ event.started # {}
                 /\ event.display = th[t].popped.display)

\* C17: every step that runs start_session, ensure_session or stop_session
\* is taken by a thread that holds SessionStore._lock when it makes the
\* call.  (The other half of the lock order holds by the shape of the code:
\* a section under the InstanceManager lock is one step here because it
\* calls nothing of SessionStore.)
C17_Step ==
    event'.call \in {"start_session", "ensure_session", "stop_session"}
        => \E t \in Threads : th'[t] # th[t] /\ storeLock = t

C17_LockOrdering == [][C17_Step]_vars

\* C18: no step runs vncserver -kill on a display to which the registry binds
\* an instance of another session than the one the step works for, whether
\* the kill comes from stop_session, from the except-branch of start_session
\* or ensure_session, or from _start_vnc.
C18_NoForeignKill ==
    \A d \in event.kill :
        \A k \in DOMAIN instances : k # event.sid => instances[k].display # d

\* C19: no step lowers the last_seen of a row, and the last_seen of a row is
\* never below its created_at.
C19_NotBelowCreated ==
    \A k \in DOMAIN sessions : sessions[k].last_seen >= sessions[k].created_at

C19_NoDecrease ==
    \A k \in DOMAIN sessions \cap DOMAIN sessions' :
        sessions'[k].last_seen >= sessions[k].last_seen

C19_LastSeenMonotonic == []C19_NotBelowCreated /\ [][C19_NoDecrease]_vars

\* C20: when create_session(username) comes to start_session, the table has
\* no row of that user and the registry no instance of that user, so that
\* start_session finds no free slot only when instances of other users hold
\* every display; and when start_session fails, the user is left without
\* row and without instance.
InstancesOf(insts, username) == {k \in DOMAIN insts : insts[k].username = username}

C20_Step ==
    \A t \in Threads :
        (/\ th[t].op = "create"
         /\ th'[t] # th[t]
         /\ event'.ret = "create_session")
          => /\ RowsOf(th[t].user) = {}
             /\ InstancesOf(instances, th[t].user) = {}
             /\ event'.res = "NoFreeSlots"
                   => {instances[k].display :
                          k \in DOMAIN instances \ InstancesOf(instances, th[t].user)}
                        = Displays
             /\ event'.res # "ok"
                   => /\ \A k \in DOMAIN sessions' : sessions'[k].username # th[t].user
                      /\ InstancesOf(instances', th[t].user) = {}

\* C20 for every step of every behaviour
C20_EvictionFirst == [][C20_Step]_vars

\* alice, who held the first of two taken slots, has logged in again and got
\* the first display back while bob holds the second
C20_Witness ==
    /\ event.ret = "create_session"
    /\ event.res = "ok"
    /\ event.rsid = 3
    /\ DOMAIN sessions = {2, 3}
    /\ sessions[3].username = "alice"
    /\ sessions[3].display = DEFAULT_BASE_DISPLAY
    /\ sessions[2].username = "bob"
    /\ DOMAIN instances = {2, 3}
    /\ instances[2].display = DEFAULT_BASE_DISPLAY + 1
====
